---- MODULE Spec2Model ----
(***************************************************************************)
(* Vehicle image server (index.js) and the MongoDB -> Supabase migration   *)
(* and fallback service (migrate.js), as one state machine.                *)
(*                                                                         *)
(*   MongoDB   cars, imageDocs      the image server's store; the "legacy" *)
(*                                  store of the migration                 *)
(*   Supabase  sbCars, sbStorage    the canonical store the migration      *)
(*                                  writes                                 *)
(*   Redis     redis                shared by both processes               *)
(***************************************************************************)
EXTENDS Integers, Sequences, FiniteSets, TLC

\* ------------------------------------------------------------------ bounds
MaxClock == 1
NumClients == 2
MaxRuns == 2
\* Redis maxmemory, in keys: a write that would exceed it fails.
RedisCapacity == 1
\* BATCH_SIZE, the page size of runMigration: 50 in migrate.js, scaled to the
\* stores of this model, which hold two or three originals.
BATCH_SIZE == 2

\* ------------------------------------------------------------ value spaces
\* Well-formed VINs (they match /^\w{17}$/) and one malformed VIN.
Vins == {"A", "B", "C"}
BadVin == "bad-vin"
Positions == {1, 2}

\* The VINs the modelled clients send with each kind of request.
LinkSources == {"A", "B", BadVin}
LinkTargets == {"A", "C", BadVin}
DeleteVins == {"A", "C", BadVin}
ReadVins == Vins \cup {BadVin}

\* JavaScript null / undefined.
Null == [null |-> TRUE]
Undefined == 0 - 1

\* The Car documents an uploader outside this repository left in MongoDB, and
\* the Image documents that exist: image "d" of B is referenced but missing.
InitialCars ==
  { [vin |-> "A", images |-> [p \in {1, 2} |-> IF p = 1 THEN "a" ELSE "b"],
     linked |-> FALSE, createdAt |-> 0, updatedAt |-> 0, from |-> ""],
    [vin |-> "B", images |-> [p \in {1, 2} |-> IF p = 1 THEN "c" ELSE "d"],
     linked |-> FALSE, createdAt |-> 0, updatedAt |-> 0, from |-> ""] }

InitialImages == {"a", "b", "c"}

\* Files below MINIO_OWN_FOLDER/<vin>/ named <vin>_<position>.<ext>.
OwnFiles == [v \in Vins |-> IF v = "A" THEN {1} ELSE {}]

\* Buffers: the bytes of an Image document, of an own-store file, and the
\* result of re-encoding a buffer with sharp(...).jpeg({quality: 85}).
RawBytes(id) == [of |-> id, enc |-> "mongo"]
OwnBytes(v, p) == [of |-> v \o "_" \o ToString(p), enc |-> "own"]
Jpeg85(b) == [of |-> b.of, enc |-> "jpeg85"]

\* buffer.toString("base64") and Buffer.from(text, "base64").
ToBase64(b) == [b64 |-> b]
FromBase64(t) == t.b64

\* Bags (a collection may hold equal documents): element -> copies.
BagOf(S) == [x \in S |-> 1]
BagAdd(b, x) ==
  [y \in DOMAIN b \cup {x} |->
     IF y = x THEN (IF x \in DOMAIN b THEN b[x] + 1 ELSE 1) ELSE b[y]]
BagDel(b, x) ==
  IF b[x] > 1 THEN [b EXCEPT ![x] = @ - 1]
  ELSE [y \in DOMAIN b \ {x} |-> b[y]]
RECURSIVE BagSize(_)
BagSize(b) ==
  IF DOMAIN b = {} THEN 0
  ELSE LET x == CHOOSE y \in DOMAIN b : TRUE
       IN b[x] + BagSize([y \in DOMAIN b \ {x} |-> b[y]])

VARIABLES
  clock,      \* Date.now(), in ticks
  cars,       \* MongoDB collection "cars": a bag of documents; the field
              \* "from" is history (the VIN a link was created from)
  imageDocs,  \* MongoDB collection "images": the ids of the documents present
  redis,      \* Redis: key -> value
  linkReq,    \* bag of link requests between existence check and save
  ev,         \* the last request handled, with its response
  preMut,     \* Redis keys of a VIN written before the VIN's latest mutation
  sbCars,     \* Supabase table "cars": vin -> row
  sbStorage,  \* Supabase storage bucket: path -> bytes
  idToPathMap,\* the migration process's lookup table: image id -> path
  run,        \* the migration process: phase, run number, cars left
  hist,       \* history: the canonical store as the first run left it
  flights,    \* bag of the fallback requests followed step by step, each
              \* with its place in the handler and what it has read
  maxmemory   \* Redis's memory limit, in keys

migVars == <<sbCars, sbStorage, idToPathMap, run>>

vars == <<clock, cars, imageDocs, redis, linkReq, ev, preMut, sbCars,
          sbStorage, idToPathMap, run, hist, flights, maxmemory>>

\* --------------------------------------------------------------- the cache
\* The expiry of each class of entries, in seconds.
CACHE_TTL == [IMAGE |-> 30 * 60, STATUS |-> 5 * 60, CHANGES |-> 60]

getCacheKeyImage(vin, positionIdentifier, shrink, brand) ==
  "image:" \o vin \o ":" \o ToString(positionIdentifier) \o ":"
    \o (IF shrink = "" THEN "original" ELSE shrink) \o ":"
    \o (IF brand = "" THEN "none" ELSE brand)

getCacheKeyStatus(vin) == "status:" \o vin

getFromCache(key) ==
  IF key \in DOMAIN redis THEN [hit |-> TRUE, data |-> redis[key]]
  ELSE [hit |-> FALSE]

\* redis.setex / redis.set on a store r; Redis refuses a new key when full.
RedisFull(r, key) == key \notin DOMAIN r /\ Cardinality(DOMAIN r) >= maxmemory

RedisSet(r, key, data) ==
  [k \in DOMAIN r \cup {key} |-> IF k = key THEN data ELSE r[k]]

\* setInCache swallows the error of a refused write.
setInCache(r, key, data) ==
  IF RedisFull(r, key) THEN r ELSE RedisSet(r, key, data)

Del(r, keys) == [k \in DOMAIN r \ keys |-> r[k]]

\* The keys the image server derives from a VIN.
VinKeys(vin) ==
  {getCacheKeyStatus(vin)}
    \cup {getCacheKeyImage(vin, p, "", "") : p \in Positions}

\* ------------------------------------------------------------- the stores
ValidVin(vin) == vin \in Vins

\* Car.findOne({vin}): MongoDB promises no order among several matches.
findOne(vin) ==
  IF {d \in DOMAIN cars : d.vin = vin} = {} THEN {Null}
  ELSE {d \in DOMAIN cars : d.vin = vin}

findFromOwnStore(vin) ==
  IF OwnFiles[vin] = {} THEN [found |-> FALSE]
  ELSE [found |-> TRUE, images |-> OwnFiles[vin], local |-> TRUE]

RECURSIVE SortAscending(_)
SortAscending(S) ==
  IF S = {} THEN <<>>
  ELSE LET m == CHOOSE x \in S : \A y \in S : x <= y
       IN <<m>> \o SortAscending(S \ {m})

\* carData.images.sort(...).map((x) => `/${vin}/${x.positionIdentifier}`)
ImagePaths(vin, positions) ==
  [i \in 1..Cardinality(positions) |->
     "/" \o vin \o "/" \o ToString(SortAscending(positions)[i])]

\* A request or migration step and its outcome: status code, whether the
\* response came from a cache entry written before the VIN's latest mutation,
\* the uploads the step issued, whether it wrote the VIN's canonical row,
\* the JSON body of a status or changed-since response, whether the
\* handler threw an exception on its way, whether an image request
\* queried MongoDB's cars, the expiry in seconds the handler passed to
\* Redis with the response it cached (0 if it cached none), and how many
\* times the handler called send or json on its response.
Event(op, vin, pos, code, out) ==
  [op |-> op, vin |-> vin, pos |-> pos, code |-> code, out |-> out,
   stale |-> FALSE, uploads |-> 0, upserted |-> FALSE, body |-> Null,
   thrown |-> FALSE, queried |-> FALSE, ttl |-> 0,
   sends |-> IF code = 0 THEN 0 ELSE 1]

EmptyMap == [k \in {} |-> Null]

\* The history once the legacy or the canonical store changed outside a run.
Disturbed == [calm |-> FALSE, ok1 |-> FALSE, end1 |-> Null]

\* The migration process before its first run: its place in runMigration,
\* the number of the run, the cars of the current page still to handle,
\* whether the run uploaded anything, whether every record succeeded,
\* totalCars, processedCount and currentBatch of runMigration, whether the
\* loop over the pages was left by break, and how often the run called
\* migrateCar for each VIN.
IdleRun ==
  [pc |-> "idle", no |-> 0, queue |-> <<>>, uploaded |-> FALSE, ok |-> TRUE,
   totalCars |-> 0, processedCount |-> 0, currentBatch |-> 0, broke |-> FALSE,
   attempted |-> BagOf({})]

\* The stores as the uploader left them, both processes started, and a
\* Redis with room for memory keys.
InitWith(memory) ==
  /\ clock = 0
  /\ cars = BagOf(InitialCars)
  /\ imageDocs = InitialImages
  /\ redis = EmptyMap
  /\ linkReq = BagOf({})
  /\ ev = Event("start", "", 0, 0, "")
  /\ preMut = {}
  /\ sbCars = EmptyMap
  /\ sbStorage = EmptyMap
  /\ idToPathMap = EmptyMap
  /\ run = IdleRun
  /\ hist = Disturbed
  /\ flights = BagOf({})
  /\ maxmemory = memory

Init == InitWith(RedisCapacity)

\* A Redis with room for the two entries one brand request writes.
InitBrand == InitWith(RedisCapacity + 1)

\* A wall clock that is set back once it reaches its end.
TickAround ==
  /\ clock' = (clock + 1) % (MaxClock + 1)
  /\ ev' = Event("tick", "", 0, 0, "")
  /\ UNCHANGED <<maxmemory, flights, cars, imageDocs, redis, linkReq, preMut, migVars, hist>>

\* Time passes.
Tick ==
  /\ clock < MaxClock
  /\ clock' = clock + 1
  /\ ev' = Event("tick", "", 0, 0, "")
  /\ UNCHANGED <<maxmemory, flights, cars, imageDocs, redis, linkReq, preMut, migVars, hist>>

\* ------------------------------------------------- index.js: the image server
\* What a successful mutation of a VIN's record leaves behind in the cache.
CachedBefore(vin) == preMut \cup (DOMAIN redis \cap VinKeys(vin))

\* handleCarData: what it sent itself (404 or nothing), the image it
\* returns, whether it came from the cache, the cache afterwards, and
\* whether it threw. readError: getImageBuffer or Image.findOne fails; the
\* catch of handleCarData logs the error and throws it again.
handleCarData(carData, vin, positionIdentifier, readError) ==
  LET cacheKey == getCacheKeyImage(vin, positionIdentifier, "original", "")
      cached == getFromCache(cacheKey)
      NotFound == [sent |-> 404, image |-> Null, hit |-> FALSE, store |-> redis,
                   threw |-> FALSE]
      Threw == [sent |-> 0, image |-> Null, hit |-> FALSE, store |-> redis,
                threw |-> TRUE]
      Found(b) == [sent |-> 0, image |-> b, hit |-> FALSE,
                   store |-> setInCache(redis, cacheKey, ToBase64(b)),
                   threw |-> FALSE]
  IN IF cached.hit
       THEN [sent |-> 0, image |-> FromBase64(cached.data), hit |-> TRUE,
             store |-> redis, threw |-> FALSE]
     ELSE IF carData = Null
       THEN LET hasLocalImage == findFromOwnStore(vin)
            IN IF ~hasLocalImage.found THEN NotFound
               ELSE IF positionIdentifier \notin hasLocalImage.images THEN NotFound
               ELSE IF readError THEN Threw
               ELSE Found(OwnBytes(vin, positionIdentifier))
     ELSE IF positionIdentifier \notin DOMAIN carData.images THEN NotFound
     ELSE IF readError THEN Threw
     ELSE IF carData.images[positionIdentifier] \notin imageDocs THEN NotFound
     ELSE Found(RawBytes(carData.images[positionIdentifier]))

\* GET /images/v1/status/:vin
Status(vin) ==
  LET cacheKey == getCacheKeyStatus(vin)
      cached == getFromCache(cacheKey)
      notFoundResponse == [success |-> TRUE, found |-> FALSE]
  IN
  /\ UNCHANGED <<maxmemory, flights, clock, cars, imageDocs, linkReq, migVars, hist>>
  /\ IF ~ValidVin(vin)
       THEN /\ ev' = Event("status", vin, 0, 400, "invalid")
            /\ UNCHANGED <<redis, preMut>>
     ELSE IF cached.hit
       THEN /\ ev' = [Event("status", vin, 0, 200, "hit")
                        EXCEPT !.stale = cacheKey \in preMut,
                               !.body = cached.data]
            /\ UNCHANGED <<redis, preMut>>
     ELSE \E found \in findOne(vin) :
       LET carData == IF found = Null THEN findFromOwnStore(vin) ELSE found
           returnData ==
             [success |-> TRUE, found |-> TRUE,
              images |-> ImagePaths(vin, IF found = Null THEN carData.images
                                         ELSE DOMAIN carData.images),
              photofairy |-> (found # Null),
              createdAt |-> IF found = Null THEN Undefined ELSE carData.createdAt,
              updatedAt |-> IF found = Null THEN Undefined ELSE carData.updatedAt]
           response == IF found = Null /\ ~carData.found THEN notFoundResponse
                       ELSE returnData
       IN /\ redis' = setInCache(redis, cacheKey, response)
          /\ preMut' = IF RedisFull(redis, cacheKey) THEN preMut
                       ELSE preMut \ {cacheKey}
          /\ ev' = [Event("status", vin, 0, 200,
                          IF response.found THEN "found" ELSE "not found")
                      EXCEPT !.body = response, !.ttl = CACHE_TTL.STATUS]

\* GET /images/v1/raw/:vin/:positionIdentifier. After handleCarData sent
\* 404 and returned nothing, the route goes on: res.set on the sent response
\* or image.image of undefined throws, and the inner catch logs the error and
\* calls res.status(404).send() once more. An error thrown by handleCarData
\* reaches the same catch, whose send is then the first. Car.findOne({vin})
\* is awaited before handleCarData looks into the cache.
Raw(vin, positionIdentifier, readError) ==
  /\ UNCHANGED <<maxmemory, flights, clock, cars, imageDocs, linkReq, migVars, hist>>
  /\ IF ~ValidVin(vin)
       THEN /\ ev' = Event("raw", vin, positionIdentifier, 400, "invalid")
            /\ UNCHANGED <<redis, preMut>>
     ELSE \E carData \in findOne(vin) :
       LET image == handleCarData(carData, vin, positionIdentifier, readError)
           cacheKey == getCacheKeyImage(vin, positionIdentifier, "original", "")
           failed == image.sent = 404 \/ image.threw
       IN /\ redis' = image.store
          /\ preMut' = IF image.hit \/ failed \/ RedisFull(redis, cacheKey)
                         THEN preMut
                       ELSE preMut \ {cacheKey}
          /\ ev' = [Event("raw", vin, positionIdentifier,
                          IF failed THEN 404 ELSE 200,
                          IF image.threw THEN "read error"
                          ELSE IF image.sent = 404 THEN "not found"
                          ELSE IF image.hit THEN "hit" ELSE "found")
                      EXCEPT !.stale = image.hit /\ cacheKey \in preMut,
                             !.thrown = failed,
                             !.queried = TRUE,
                             !.ttl = IF image.hit \/ failed THEN 0
                                     ELSE CACHE_TTL.IMAGE,
                             !.sends = IF image.sent = 404 THEN 2 ELSE 1]

\* The footers loaded into BRANDS at start (two of the four), and the
\* brandIds requests name: the loaded ones and one that is no key of BRANDS.
BRANDS == {"BRAND", "BRANDDSG"}
BrandIds == BRANDS \cup {"OTHER"}

\* Buffer.from(im).length: the Image documents "a" and "c" hold different
\* pictures of the same number of bytes.
ByteLength(im) == IF im.of \in {"a", "c"} THEN 1 ELSE 2

\* The picture im with the footer of the brand composed onto it.
Branded(im, brand) == [of |-> im.of, enc |-> brand]

\* brandImage(im, brand) with the cache r: the bytes it returns and the
\* cache afterwards. The key is built from the byte length of im (written
\* to base 36) and the brand.
brandImage(r, im, brand) ==
  LET cacheKey == getCacheKeyImage("branded", ByteLength(im), "", brand)
  IN IF brand \notin BRANDS THEN [image |-> im, store |-> r]
     ELSE IF cacheKey \in DOMAIN r
       THEN [image |-> FromBase64(r[cacheKey]), store |-> r]
     ELSE [image |-> Branded(im, brand),
           store |-> setInCache(r, cacheKey, ToBase64(Branded(im, brand)))]

\* What a brand route does with the image handleCarData returned, without
\* a shrink parameter: position 1 is branded, any other sent as it is.
\* body records the image resolved, the brand and the bytes sent.
BrandAndSend(op, vin, positionIdentifier, image, brand) ==
  LET im == IF positionIdentifier = 1
              THEN brandImage(image.store, image.image, brand)
            ELSE [image |-> image.image, store |-> image.store]
      cacheKey == getCacheKeyImage(vin, positionIdentifier, "original", "")
  IN /\ redis' = im.store
     /\ preMut' = IF image.hit \/ RedisFull(redis, cacheKey) THEN preMut
                  ELSE preMut \ {cacheKey}
     /\ ev' = [Event(op, vin, positionIdentifier, 200,
                     IF image.hit THEN "hit" ELSE "found")
                 EXCEPT !.stale = image.hit /\ cacheKey \in preMut,
                        !.queried = TRUE,
                        !.ttl = IF image.hit THEN 0 ELSE CACHE_TTL.IMAGE,
                        !.body = [source |-> image.image, brand |-> brand,
                                  sent |-> im.image]]

\* GET /images/v1/brand/:vin/:positionIdentifier: the raw route with
\* brandImage(im) before the response, the brand being "BRAND".
Brand(vin, positionIdentifier, readError) ==
  /\ UNCHANGED <<maxmemory, flights, clock, cars, imageDocs, linkReq, migVars, hist>>
  /\ IF ~ValidVin(vin)
       THEN /\ ev' = Event("brand", vin, positionIdentifier, 400, "invalid")
            /\ UNCHANGED <<redis, preMut>>
     ELSE \E carData \in findOne(vin) :
       LET image == handleCarData(carData, vin, positionIdentifier, readError)
       IN IF image.sent = 404 \/ image.threw
            THEN /\ ev' = [Event("brand", vin, positionIdentifier, 404,
                                 IF image.threw THEN "read error"
                                 ELSE "not found")
                             EXCEPT !.thrown = TRUE, !.queried = TRUE,
                                    !.sends = IF image.sent = 404 THEN 2 ELSE 1]
                 /\ UNCHANGED <<redis, preMut>>
          ELSE BrandAndSend("brand", vin, positionIdentifier, image, "BRAND")

\* GET /images/v2/brand/<brandId>/<vin>/<position>: the route matches VINs
\* of 17 word characters only. handleCarData(...).then(...).catch(() => {}):
\* after a 404 of handleCarData the callback throws at res.set and the error
\* is dropped; an error thrown by handleCarData is dropped as well, and no
\* response is sent.
BrandV2(brandId, vin, positionIdentifier, readError) ==
  /\ UNCHANGED <<maxmemory, flights, clock, cars, imageDocs, linkReq, migVars, hist>>
  /\ IF brandId \notin BRANDS
       THEN /\ ev' = Event("brandV2", vin, positionIdentifier, 400,
                           "Invalid brandId set")
            /\ UNCHANGED <<redis, preMut>>
     ELSE IF ~ValidVin(vin)
       THEN /\ ev' = Event("brandV2", vin, positionIdentifier, 400, "invalid")
            /\ UNCHANGED <<redis, preMut>>
     ELSE \E carData \in findOne(vin) :
       LET image == handleCarData(carData, vin, positionIdentifier, readError)
       IN IF image.threw
            THEN /\ ev' = [Event("brandV2", vin, positionIdentifier, 0,
                                 "no response")
                             EXCEPT !.thrown = TRUE, !.queried = TRUE]
                 /\ UNCHANGED <<redis, preMut>>
          ELSE IF image.sent = 404
            THEN /\ ev' = [Event("brandV2", vin, positionIdentifier, 404,
                                 "not found")
                             EXCEPT !.thrown = TRUE, !.queried = TRUE]
                 /\ UNCHANGED <<redis, preMut>>
          ELSE BrandAndSend("brandV2", vin, positionIdentifier, image, brandId)

\* The link route without its "already exists" check.
LinkWithoutCarCheck(from, to) ==
  /\ BagSize(linkReq) < NumClients
  /\ UNCHANGED <<maxmemory, flights, clock, cars, imageDocs, redis, preMut, migVars, hist>>
  /\ IF ~ValidVin(from) \/ ~ValidVin(to)
       THEN /\ ev' = Event("link", to, 0, 400, "invalid")
            /\ UNCHANGED linkReq
     ELSE \E carData \in findOne(from) :
       IF carData = Null
         THEN /\ ev' = Event("link", to, 0, 404, "not found")
              /\ UNCHANGED linkReq
       ELSE /\ linkReq' = BagAdd(linkReq, [vin |-> to, images |-> carData.images,
                                           from |-> from])
            /\ ev' = Event("link", to, 0, 0, "saving")

\* GET /images/v1/link/:from/:to, up to the two Car.findOne calls.
LinkCheck(from, to) ==
  /\ BagSize(linkReq) < NumClients
  /\ UNCHANGED <<maxmemory, flights, clock, cars, imageDocs, redis, preMut, migVars, hist>>
  /\ IF ~ValidVin(from) \/ ~ValidVin(to)
       THEN /\ ev' = Event("link", to, 0, 400, "invalid")
            /\ UNCHANGED linkReq
     ELSE \E carData \in findOne(from), carCheck \in findOne(to) :
       IF carCheck # Null
         THEN /\ ev' = Event("link", to, 0, 500, "already exists")
              /\ UNCHANGED linkReq
       ELSE IF carData = Null
         THEN /\ ev' = Event("link", to, 0, 404, "not found")
              /\ UNCHANGED linkReq
       ELSE /\ linkReq' = BagAdd(linkReq, [vin |-> to, images |-> carData.images,
                                           from |-> from])
            /\ ev' = Event("link", to, 0, 0, "saving")

\* new Car({vin, images, linked: true}).save() and the 200 response.
LinkSave(req) ==
  /\ req \in DOMAIN linkReq
  /\ cars' = BagAdd(cars, [vin |-> req.vin, images |-> req.images, linked |-> TRUE,
                           createdAt |-> clock, updatedAt |-> clock,
                           from |-> req.from])
  /\ preMut' = CachedBefore(req.vin)
  /\ ev' = Event("linkSave", req.vin, 0, 200, "saved")
  /\ linkReq' = BagDel(linkReq, req)
  /\ hist' = Disturbed
  /\ UNCHANGED <<maxmemory, flights, clock, imageDocs, redis, migVars>>

\* Car.deleteOne({_id: carData._id})
deleteOne(carData) ==
  /\ cars' = BagDel(cars, carData)
  /\ preMut' = CachedBefore(carData.vin)
  /\ hist' = Disturbed

\* The delete-link route without its test of carData.linked.
DeleteLinkOfAny(vin) ==
  /\ UNCHANGED <<maxmemory, flights, clock, imageDocs, redis, linkReq, migVars>>
  /\ IF ~ValidVin(vin)
       THEN /\ ev' = Event("deleteLink", vin, 0, 400, "invalid")
            /\ UNCHANGED <<cars, preMut, hist>>
     ELSE \E carData \in findOne(vin) :
       IF carData = Null
         THEN /\ ev' = Event("deleteLink", vin, 0, 404, "not found")
              /\ UNCHANGED <<cars, preMut, hist>>
       ELSE /\ deleteOne(carData)
            /\ ev' = Event("deleteLink", vin, 0, 200, "deleted")

\* DELETE /images/v1/link/:vin
DeleteLink(vin) ==
  /\ UNCHANGED <<maxmemory, flights, clock, imageDocs, redis, linkReq, migVars>>
  /\ IF ~ValidVin(vin)
       THEN /\ ev' = Event("deleteLink", vin, 0, 400, "invalid")
            /\ UNCHANGED <<cars, preMut, hist>>
     ELSE \E carData \in findOne(vin) :
       IF carData = Null
         THEN /\ ev' = Event("deleteLink", vin, 0, 404, "not found")
              /\ UNCHANGED <<cars, preMut, hist>>
       ELSE IF ~carData.linked
         THEN /\ ev' = Event("deleteLink", vin, 0, 400, "original")
              /\ UNCHANGED <<cars, preMut, hist>>
       ELSE /\ deleteOne(carData)
            /\ ev' = Event("deleteLink", vin, 0, 200, "deleted")

\* DELETE /images/v1/original/:vin behind passport.authenticate("basic").
DeleteOriginal(vin, authenticated) ==
  /\ UNCHANGED <<maxmemory, flights, clock, imageDocs, redis, linkReq, migVars>>
  /\ IF ~authenticated
       THEN /\ ev' = Event("deleteOriginal", vin, 0, 401, "unauthorized")
            /\ UNCHANGED <<cars, preMut, hist>>
     ELSE IF ~ValidVin(vin)
       THEN /\ ev' = Event("deleteOriginal", vin, 0, 400, "invalid")
            /\ UNCHANGED <<cars, preMut, hist>>
     ELSE \E carData \in findOne(vin) :
       IF carData = Null
         THEN /\ ev' = Event("deleteOriginal", vin, 0, 404, "not found")
              /\ UNCHANGED <<cars, preMut, hist>>
       ELSE /\ deleteOne(carData)
            /\ ev' = Event("deleteOriginal", vin, 0, 200, "deleted")

\* A Redis key reaches its TTL.
Expire(key) ==
  /\ key \in DOMAIN redis
  /\ redis' = Del(redis, {key})
  /\ preMut' = preMut \ {key}
  /\ ev' = Event("expire", "", 0, 0, "")
  /\ UNCHANGED <<maxmemory, flights, clock, cars, imageDocs, linkReq, migVars, hist>>

\* A time of the clock in seconds: one tick is a minute.
InSeconds(t) == t * 60
\* The windows, in seconds, clients ask "changed since" for.
Windows == {0, 60}
getCacheKeyChanges(seconds) == "changes:" \o ToString(seconds)

\* data.map((x) => x.vin): every document found gives one entry; the list is
\* kept as the number of entries of each VIN.
VinsOf(data) ==
  [v \in {d.vin : d \in DOMAIN data} |->
     BagSize([d \in {e \in DOMAIN data : e.vin = v} |-> data[d]])]

\* GET /images/v1/status/changedsince/:seconds. body.since records the
\* timestamp the query used, in seconds; it is not part of the response.
ChangedSince(sec) ==
  LET cacheKey == getCacheKeyChanges(sec)
      cached == getFromCache(cacheKey)
      timestamp == InSeconds(clock) - sec
      data == [d \in {e \in DOMAIN cars : InSeconds(e.updatedAt) >= timestamp}
                 |-> cars[d]]
      response == [success |-> TRUE, data |-> VinsOf(data), since |-> timestamp]
  IN
  /\ UNCHANGED <<maxmemory, flights, clock, cars, imageDocs, linkReq, migVars, hist>>
  /\ IF cached.hit
       THEN /\ ev' = [Event("changedSince", "", 0, 200, "hit")
                        EXCEPT !.body = cached.data]
            /\ UNCHANGED <<redis, preMut>>
       ELSE /\ redis' = setInCache(redis, cacheKey, response)
            /\ preMut' = IF RedisFull(redis, cacheKey) THEN preMut
                         ELSE preMut \ {cacheKey}
            /\ ev' = [Event("changedSince", "", 0, 200, "mongodb")
                        EXCEPT !.body = response, !.ttl = CACHE_TTL.CHANGES]

\* The requests that write MongoDB.
Mutations ==
  \/ \E from \in LinkSources, to \in LinkTargets : LinkCheck(from, to)
  \/ \E req \in DOMAIN linkReq : LinkSave(req)
  \/ \E vin \in DeleteVins : DeleteLink(vin)
  \/ \E vin \in DeleteVins, authenticated \in BOOLEAN :
       DeleteOriginal(vin, authenticated)

\* The positions image requests name: those of the records and one that no
\* record holds.
RawPositions == Positions \cup {3}

\* The requests that read, and fill the cache.
Reads ==
  \/ \E vin \in ReadVins : Status(vin)
  \/ \E vin \in ReadVins, p \in RawPositions, readError \in BOOLEAN :
       Raw(vin, p, readError)
  \/ \E key \in DOMAIN redis : Expire(key)

\* ------------------------------------- migrate.js: the batch migration
\* `${car.vin}/${imgEntry.positionIdentifier}.jpg`
ImagePath(vin, positionIdentifier) ==
  vin \o "/" \o ToString(positionIdentifier) \o ".jpg"

getCacheKeyFallback(vin, positionIdentifier) ==
  "fallback:" \o vin \o ":" \o ToString(positionIdentifier)

\* The keys the pattern "changedsince:*" matches.
ChangedSinceKeys == {"changedsince:" \o ToString(w) : w \in Windows}

\* A migration that leaves the cache as it is.
delNothing(r, vin) == r

\* redis.del(`status:${vin}`), then redis.del of the keys "changedsince:*".
delStatusAndChangedSince(r, vin) ==
  Del(r, {getCacheKeyStatus(vin)} \cup (DOMAIN r \cap ChangedSinceKeys))

\* supabase.from("cars").select("*").eq("vin", vin).single()
existing(vin) == IF vin \in DOMAIN sbCars THEN sbCars[vin] ELSE Null

\* The other order of the two fields.
createdAtFirst(car) ==
  IF car.createdAt # Undefined THEN car.createdAt ELSE car.updatedAt

\* car.updatedAt || car.createdAt, and in migrateLinkedCars
\* linkedCar.updatedAt || linkedCar.createdAt || new Date(0)
mongoTimestamp(car) ==
  IF car.updatedAt # Undefined THEN car.updatedAt ELSE car.createdAt
mongoTimestampLinked(linkedCar) ==
  IF mongoTimestamp(linkedCar) # Undefined THEN mongoTimestamp(linkedCar) ELSE 0

\* new Date(existingCar.updated_at || existingCar.created_at), and in
\* migrateLinkedCars with || new Date(0) added
supabaseTimestamp(existingCar) ==
  IF existingCar.updated_at # Undefined THEN existingCar.updated_at
  ELSE existingCar.created_at
supabaseTimestampLinked(existingCar) ==
  IF supabaseTimestamp(existingCar) # Undefined
    THEN supabaseTimestamp(existingCar)
  ELSE 0

SkipStrictlyOlder(mongoTs, supabaseTs) == mongoTs < supabaseTs
SkipNever(mongoTs, supabaseTs) == FALSE

\* if (mongoTimestamp <= supabaseTimestamp): the record is skipped. With
\* undefined or an invalid Date on either side the comparison is false.
ShouldSkip(mongoTs, supabaseTs) ==
  mongoTs # Undefined /\ supabaseTs # Undefined /\ mongoTs <= supabaseTs

\* f with the entries of g added or replaced.
Merge(f, g) ==
  [k \in DOMAIN f \cup DOMAIN g |-> IF k \in DOMAIN g THEN g[k] ELSE f[k]]

\* .sort({updatedAt: -1, createdAt: -1})
NewestFirst(d, e) ==
  \/ d.updatedAt > e.updatedAt
  \/ d.updatedAt = e.updatedAt /\ d.createdAt >= e.createdAt

\* The results Car.find can return for the documents docs match: each as
\* often as the collection holds it, newest first if sorted, else in any order.
FindResults(docs, sorted) ==
  LET n == BagSize([d \in docs |-> cars[d]])
  IN {s \in [1..n -> docs] :
        /\ \A d \in docs : Cardinality({i \in 1..n : s[i] = d}) = cars[d]
        /\ \A i, j \in 1..n : (sorted /\ i < j) => NewestFirst(s[i], s[j])}

\* {linked: {$ne: true}} and {linked: true}
Originals == {d \in DOMAIN cars : ~d.linked}
Linked == {d \in DOMAIN cars : d.linked}

\* .skip(currentBatch * BATCH_SIZE).limit(BATCH_SIZE) of the sorted result.
Page(sorted, currentBatch) ==
  SubSeq(sorted, currentBatch * BATCH_SIZE + 1,
         IF Len(sorted) < (currentBatch + 1) * BATCH_SIZE THEN Len(sorted)
         ELSE (currentBatch + 1) * BATCH_SIZE)

\* runMigration up to the query of its first page, in a new process.
RunStart ==
  /\ run.pc \in {"idle", "done"}
  /\ run.no < MaxRuns
  /\ \E cars0 \in FindResults(Originals, TRUE) :
       run' = [pc |-> "originals", no |-> run.no + 1,
               queue |-> Page(cars0, 0), uploaded |-> FALSE, ok |-> TRUE,
               totalCars |-> Len(cars0), processedCount |-> 0,
               currentBatch |-> 0, broke |-> FALSE, attempted |-> BagOf({})]
  /\ hist' = IF run.no = 0 THEN [calm |-> TRUE, ok1 |-> FALSE, end1 |-> Null]
             ELSE hist
  /\ ev' = Event("runStart", "", 0, 0, "")
  /\ UNCHANGED <<maxmemory, flights, clock, cars, imageDocs, redis, linkReq, preMut, sbCars,
                 sbStorage, idToPathMap>>

\* A loop that stops at the first record that failed.
RemainingAbortOnFailure(queue, success) ==
  IF success THEN Tail(queue) ELSE <<>>

\* The records a loop over the batch still has to handle after one record:
\* migrateCar returns false and the rounds of migrateLinkedCars continue,
\* whatever went wrong, and the loop goes on to the next record.
Remaining(queue, success) == Tail(queue)

\* The next page of the loop of runMigration, once the cars of the page
\* before are handled: an empty page leaves the loop.
FindBatch ==
  /\ run.pc = "originals"
  /\ run.queue = <<>>
  /\ ~run.broke
  /\ run.processedCount < run.totalCars
  /\ \E cars0 \in FindResults(Originals, TRUE) :
       run' = [run EXCEPT !.currentBatch = @ + 1,
                          !.queue = Page(cars0, run.currentBatch + 1),
                          !.broke = (Page(cars0, run.currentBatch + 1) = <<>>)]
  /\ ev' = Event("findBatch", "", 0, 0, "")
  /\ UNCHANGED <<maxmemory, flights, clock, cars, imageDocs, redis, linkReq, preMut, sbCars,
                 sbStorage, idToPathMap, hist>>

\* What goes wrong after the uploads of a record: nothing, the insert, update
\* or upsert of the row, or the Redis calls that follow it.
WriteErrors == {"none", "write", "redis"}

\* migrateCar(car, Image) for the next car of the page. queryError, the
\* positions whose upload fails, and the error of the insert or update are
\* Supabase's to decide, the error of the invalidation is Redis's: it is
\* thrown into the catch of migrateCar, which returns false.
migrateCar(queryError, failing, error) ==
  /\ run.pc = "originals"
  /\ run.queue # <<>>
  /\ LET car == Head(run.queue)
         existingCar == existing(car.vin)
         found == {p \in DOMAIN car.images : car.images[p] \in imageDocs}
         uploaded == found \ failing
         mapped ==
           [id \in {car.images[p] : p \in uploaded} |->
              LET p == CHOOSE q \in uploaded : car.images[q] = id
              IN [path |-> ImagePath(car.vin, p), vin |-> car.vin,
                  positionIdentifier |-> p]]
         imageEntries ==
           [p \in uploaded |->
              [path |-> ImagePath(car.vin, p), originalId |-> car.images[p]]]
         stored ==
           Merge(sbStorage,
                 [path \in {ImagePath(car.vin, p) : p \in uploaded} |->
                    LET p == CHOOSE q \in uploaded : ImagePath(car.vin, q) = path
                    IN Jpeg85(RawBytes(car.images[p]))])
         Done(out, success, n, upserted) ==
           /\ run' = [run EXCEPT !.queue = Remaining(@, success),
                                 !.uploaded = @ \/ n > 0,
                                 !.ok = @ /\ success,
                                 !.processedCount = @ + 1,
                                 !.attempted = BagAdd(@, car.vin)]
           /\ ev' = [Event("migrateCar", car.vin, 0, 0, out)
                       EXCEPT !.uploads = n, !.upserted = upserted]
     IN IF queryError
          THEN /\ Done("query error", FALSE, 0, FALSE)
               /\ UNCHANGED <<sbCars, sbStorage, idToPathMap, redis>>
        ELSE IF existingCar # Null
                /\ ShouldSkip(mongoTimestamp(car), supabaseTimestamp(existingCar))
          THEN LET known == DOMAIN car.images \cap DOMAIN existingCar.images
               IN /\ idToPathMap' =
                       Merge(idToPathMap,
                             [id \in {car.images[p] : p \in known} |->
                                LET p == CHOOSE q \in known : car.images[q] = id
                                IN [path |-> existingCar.images[p].path,
                                    vin |-> car.vin, positionIdentifier |-> p]])
                  /\ Done("skip", TRUE, 0, FALSE)
                  /\ UNCHANGED <<sbCars, sbStorage, redis>>
        ELSE /\ sbStorage' = stored
             /\ idToPathMap' = Merge(idToPathMap, mapped)
             /\ IF error = "write"
                  THEN /\ Done("write error", FALSE, Cardinality(found), FALSE)
                       /\ UNCHANGED <<sbCars, redis>>
                ELSE /\ sbCars' =
                          Merge(sbCars,
                            [v \in {car.vin} |->
                               IF existingCar # Null
                                 THEN [existingCar EXCEPT
                                         !.images = Merge(@, imageEntries),
                                         !.linked = car.linked,
                                         !.updated_at = clock]
                               ELSE [images |-> imageEntries,
                                     linked |-> car.linked,
                                     created_at |-> car.createdAt,
                                     updated_at |-> clock]])
                     /\ IF error = "redis"
                          THEN /\ redis' = redis
                               /\ Done("redis error", FALSE,
                                       Cardinality(found), TRUE)
                        ELSE /\ redis' = delStatusAndChangedSince(redis, car.vin)
                             /\ Done("migrated", TRUE, Cardinality(found), TRUE)
  /\ hist' = hist
  /\ UNCHANGED <<maxmemory, flights, clock, cars, imageDocs, linkReq, preMut>>

\* migrateLinkedCars called while originals of the batch are left.
StartLinkedEarly ==
  /\ run.pc = "originals"
  /\ \E linkedCars \in FindResults(Linked, FALSE) :
       run' = [run EXCEPT !.pc = "linked", !.queue = linkedCars]
  /\ ev' = Event("startLinked", "", 0, 0, "")
  /\ UNCHANGED <<maxmemory, flights, clock, cars, imageDocs, redis, linkReq, preMut, sbCars,
                 sbStorage, idToPathMap, hist>>

\* The originals are done: migrateLinkedCars queries Car.find({linked: true}).
StartLinked ==
  /\ run.pc = "originals"
  /\ run.queue = <<>>
  /\ run.broke \/ run.processedCount >= run.totalCars
  /\ \E linkedCars \in FindResults(Linked, FALSE) :
       run' = [run EXCEPT !.pc = "linked", !.queue = linkedCars]
  /\ ev' = Event("startLinked", "", 0, 0, "")
  /\ UNCHANGED <<maxmemory, flights, clock, cars, imageDocs, redis, linkReq, preMut, sbCars,
                 sbStorage, idToPathMap, hist>>

\* One round of the loop of migrateLinkedCars.
migrateLinkedCars(queryError, error) ==
  /\ run.pc = "linked"
  /\ run.queue # <<>>
  /\ LET linkedCar == Head(run.queue)
         existingCar == existing(linkedCar.vin)
         mappable == {p \in DOMAIN linkedCar.images :
                        linkedCar.images[p] \in DOMAIN idToPathMap}
         imageEntries ==
           [p \in mappable |->
              [path |-> idToPathMap[linkedCar.images[p]].path,
               originalId |-> linkedCar.images[p]]]
         Done(out, success, upserted) ==
           /\ run' = [run EXCEPT !.queue = Remaining(@, success),
                                 !.ok = @ /\ success]
           /\ ev' = [Event("migrateLinked", linkedCar.vin, 0, 0, out)
                       EXCEPT !.upserted = upserted]
     IN IF queryError
          THEN /\ Done("query error", FALSE, FALSE)
               /\ UNCHANGED <<sbCars, redis>>
        ELSE IF existingCar # Null
                /\ ShouldSkip(mongoTimestampLinked(linkedCar),
                              supabaseTimestampLinked(existingCar))
          THEN /\ Done("skip", TRUE, FALSE)
               /\ UNCHANGED <<sbCars, redis>>
        ELSE IF mappable = {}
          THEN /\ Done("unmapped", FALSE, FALSE)
               /\ UNCHANGED <<sbCars, redis>>
        ELSE IF error = "write"
          THEN /\ Done("write error", FALSE, FALSE)
               /\ UNCHANGED <<sbCars, redis>>
        ELSE /\ sbCars' =
                  Merge(sbCars,
                    [v \in {linkedCar.vin} |->
                       [images |-> imageEntries, linked |-> TRUE,
                        created_at |-> linkedCar.createdAt,
                        updated_at |-> clock]])
             /\ IF error = "redis"
                  THEN /\ redis' = redis
                       /\ Done("redis error", FALSE, TRUE)
                ELSE /\ redis' = delStatusAndChangedSince(redis, linkedCar.vin)
                     /\ Done("migrated", TRUE, TRUE)
  /\ UNCHANGED <<maxmemory, flights, clock, cars, imageDocs, linkReq, preMut, sbStorage,
                 idToPathMap, hist>>

\* A run that ends by removing the migrated documents from MongoDB.
RunEndPurging ==
  /\ run.pc = "linked"
  /\ run.queue = <<>>
  /\ run' = [run EXCEPT !.pc = "done"]
  /\ hist' = hist
  /\ idToPathMap' = EmptyMap
  /\ cars' = [d \in {e \in DOMAIN cars : e.vin \notin DOMAIN sbCars} |-> cars[d]]
  /\ ev' = Event("runEnd", "", 0, 0, "")
  /\ UNCHANGED <<maxmemory, flights, clock, imageDocs, redis, linkReq, preMut, sbCars,
                 sbStorage>>

\* runMigration returns and the process exits; its lookup table goes with it.
RunEnd ==
  /\ run.pc = "linked"
  /\ run.queue = <<>>
  /\ run' = [run EXCEPT !.pc = "done"]
  /\ hist' = IF run.no = 1
               THEN [hist EXCEPT !.ok1 = run.ok,
                                 !.end1 = [cars |-> sbCars, storage |-> sbStorage]]
             ELSE hist
  /\ idToPathMap' = EmptyMap
  /\ ev' = Event("runEnd", "", 0, 0, "")
  /\ UNCHANGED <<maxmemory, flights, clock, cars, imageDocs, redis, linkReq, preMut, sbCars,
                 sbStorage>>

\* ------------------------------------ migrate.js: the fallback service
\* Car.findOne({"images.imageId": imageId, linked: {$ne: true}})
findOriginal(imageId) ==
  LET found == {d \in DOMAIN cars :
                  ~d.linked /\ \E p \in DOMAIN d.images : d.images[p] = imageId}
  IN IF found = {} THEN {Null} ELSE found

\* updateCarMetadata on the storage s and cache r its caller left, with the
\* original car its query finds; fail names the Supabase call that errs.
\* "thrown" tells whether it threw.
updateCarMetadata(vin, positionIdentifier, imagePath, car, imageBuffer, originalCar, s, r, fail) ==
  LET existingCar == existing(vin)
      toOriginal == car.linked /\ originalCar # Null
      originalImagePath ==
        IF toOriginal THEN ImagePath(originalCar.vin, positionIdentifier)
        ELSE imagePath
      upload == toOriginal /\ originalImagePath \notin DOMAIN s
      s2 == IF upload
              THEN Merge(s, [k \in {originalImagePath} |-> imageBuffer])
            ELSE s
      r2 == IF upload THEN Del(r, {getCacheKeyStatus(originalCar.vin)}) ELSE r
      entry == [p \in {positionIdentifier} |-> [path |-> originalImagePath]]
      row == IF existingCar = Null
               THEN [images |-> entry, linked |-> car.linked,
                     created_at |-> clock, updated_at |-> clock]
             ELSE [existingCar EXCEPT !.images = Merge(@, entry),
                                      !.linked = car.linked,
                                      !.updated_at = clock]
      Unchanged(store, cache, n) ==
        [cars |-> sbCars, storage |-> store, redis |-> cache, uploads |-> n,
         thrown |-> TRUE]
  IN IF fail = "query" THEN Unchanged(s, r, 0)
     ELSE IF upload /\ fail = "upload" THEN Unchanged(s, r, 1)
     ELSE IF fail = "write" THEN Unchanged(s2, r2, IF upload THEN 1 ELSE 0)
     ELSE [cars |-> Merge(sbCars, [v \in {vin} |-> row]),
           storage |-> s2,
           redis |-> delStatusAndChangedSince(r2, vin),
           uploads |-> IF upload THEN 1 ELSE 0,
           thrown |-> FALSE]

\* GET /fallback/:vin/:positionIdentifier; fail names the Supabase call that
\* errs during the request, if any, or "redis" when Redis cannot be reached.
\* The route does not test the VIN; an error of redis.getBuffer or redis.set
\* is caught by the route's outer catch, which answers 500.
Fallback(vin, positionIdentifier, fail) ==
  LET cacheKey == getCacheKeyFallback(vin, positionIdentifier)
      Answer(code, out) ==
        /\ ev' = [Event("fallback", vin, positionIdentifier, code, out)
                    EXCEPT !.thrown = (code = 500),
                           !.queried = (out \notin {"fallback-cache"}
                                          /\ fail # "redis")]
        /\ UNCHANGED <<redis, sbCars, sbStorage, hist>>
  IN
  /\ UNCHANGED <<maxmemory, flights, clock, cars, imageDocs, linkReq, preMut, idToPathMap, run>>
  /\ IF fail = "redis"
       THEN Answer(500, "Internal server error")
     ELSE IF cacheKey \in DOMAIN redis
       THEN Answer(200, "fallback-cache")
     ELSE \E car \in findOne(vin) :
       IF car = Null THEN Answer(404, "Car not found")
       ELSE IF positionIdentifier \notin DOMAIN car.images
         THEN Answer(404, "Image not found for this car")
       ELSE IF car.images[positionIdentifier] \notin imageDocs
         THEN Answer(404, "Image data not found")
       ELSE IF RedisFull(redis, cacheKey)
         THEN Answer(500, "Internal server error")
       ELSE
         LET image == RawBytes(car.images[positionIdentifier])
             optimizedImage == Jpeg85(image)
             imagePath == ImagePath(vin, positionIdentifier)
             cached == RedisSet(redis, cacheKey, image)
             uploadError == ~car.linked /\ fail = "upload"
             uploaded ==
               IF car.linked \/ uploadError THEN sbStorage
               ELSE Merge(sbStorage, [k \in {imagePath} |-> optimizedImage])
         IN \E originalCar \in findOriginal(car.images[positionIdentifier]) :
              LET m == updateCarMetadata(vin, positionIdentifier, imagePath,
                                         car, optimizedImage, originalCar,
                                         uploaded, cached, fail)
              IN /\ sbStorage' = IF uploadError THEN sbStorage ELSE m.storage
                 /\ sbCars' = IF uploadError THEN sbCars ELSE m.cars
                 /\ redis' = IF uploadError THEN cached ELSE m.redis
                 /\ hist' = Disturbed
                 /\ ev' = [Event("fallback", vin, positionIdentifier, 200,
                                 "mongodb-fallback")
                             EXCEPT !.uploads =
                                      (IF car.linked THEN 0 ELSE 1)
                                        + (IF uploadError THEN 0 ELSE m.uploads),
                                    !.upserted = ~uploadError /\ ~m.thrown,
                                    !.queried = TRUE,
                                    !.ttl = 3600]

\* The fallback route again, as the steps between which other requests of
\* the same process run: up to the cache lookup, from there to the query of
\* the canonical row in updateCarMetadata, and from there to the response.
\* Supabase does not err here, except for an insert of a VIN that has a row.
Flight(vin, pos, pc, linked, path, existingCar, out) ==
  [vin |-> vin, pos |-> pos, pc |-> pc, linked |-> linked, path |-> path,
   existingCar |-> existingCar, out |-> out]

Landed(f, out) == Flight(f.vin, f.pos, "done", f.linked, f.path, Null, out)

\* redis.getBuffer(cacheKey): answered from the cache, or on its way.
FallbackArrive(vin, positionIdentifier) ==
  /\ IF getCacheKeyFallback(vin, positionIdentifier) \in DOMAIN redis
       THEN /\ ev' = Event("fallback", vin, positionIdentifier, 200,
                           "fallback-cache")
            /\ UNCHANGED flights
     ELSE /\ BagSize(flights) < NumClients
          /\ flights' = BagAdd(flights, Flight(vin, positionIdentifier,
                                               "missed", FALSE, "", Null, ""))
          /\ ev' = Event("fallbackMiss", vin, positionIdentifier, 0, "")
  /\ UNCHANGED <<maxmemory, clock, cars, imageDocs, redis, linkReq, preMut,
                 migVars, hist>>

\* Car.findOne, Image.findById, redis.set, the upload, and in
\* updateCarMetadata the query of the canonical row, the search for the
\* original of a linked car and the upload of its image.
FallbackFetch(f) ==
  LET cacheKey == getCacheKeyFallback(f.vin, f.pos)
      Answer(code, out) ==
        /\ flights' = BagAdd(BagDel(flights, f), Landed(f, out))
        /\ ev' = [Event("fallback", f.vin, f.pos, code, out)
                    EXCEPT !.thrown = (code = 500), !.queried = TRUE]
        /\ UNCHANGED <<redis, sbStorage>>
  IN
  /\ f \in DOMAIN flights
  /\ f.pc = "missed"
  /\ UNCHANGED <<maxmemory, clock, cars, imageDocs, linkReq, preMut, sbCars, idToPathMap,
                 run, hist>>
  /\ \E car \in findOne(f.vin) :
       IF car = Null THEN Answer(404, "Car not found")
       ELSE IF f.pos \notin DOMAIN car.images
         THEN Answer(404, "Image not found for this car")
       ELSE IF car.images[f.pos] \notin imageDocs
         THEN Answer(404, "Image data not found")
       ELSE IF RedisFull(redis, cacheKey)
         THEN Answer(500, "Internal server error")
       ELSE
         \E originalCar \in IF car.linked THEN findOriginal(car.images[f.pos])
                             ELSE {Null} :
           LET optimizedImage == Jpeg85(RawBytes(car.images[f.pos]))
               imagePath ==
                 IF originalCar # Null THEN ImagePath(originalCar.vin, f.pos)
                 ELSE ImagePath(f.vin, f.pos)
               upload == ~car.linked
                         \/ (originalCar # Null /\ imagePath \notin DOMAIN sbStorage)
               cached == RedisSet(redis, cacheKey, RawBytes(car.images[f.pos]))
           IN /\ sbStorage' =
                   IF upload
                     THEN Merge(sbStorage, [k \in {imagePath} |-> optimizedImage])
                   ELSE sbStorage
              /\ redis' = IF car.linked /\ upload
                            THEN Del(cached, {getCacheKeyStatus(originalCar.vin)})
                          ELSE cached
              /\ flights' = BagAdd(BagDel(flights, f),
                                   Flight(f.vin, f.pos, "read", car.linked,
                                          imagePath, existing(f.vin), ""))
              /\ ev' = [Event("fallbackFetch", f.vin, f.pos, 0, "")
                          EXCEPT !.uploads = IF upload THEN 1 ELSE 0,
                                 !.queried = TRUE, !.ttl = 3600]

\* The insert or update of updateCarMetadata with the row it read, the
\* deletion of the cache entries, and res.send(image.image). An insert for
\* a VIN that has a row by now violates the primary key: updateCarMetadata
\* throws, and the route logs "Auto-migration failed".
FallbackWrite(f) ==
  LET entry == [p \in {f.pos} |-> [path |-> f.path]]
      conflict == f.existingCar = Null /\ f.vin \in DOMAIN sbCars
      row == IF f.existingCar = Null
               THEN [images |-> entry, linked |-> f.linked,
                     created_at |-> clock, updated_at |-> clock]
             ELSE [sbCars[f.vin] EXCEPT
                     !.images = Merge(f.existingCar.images, entry),
                     !.linked = f.linked,
                     !.updated_at = clock]
  IN
  /\ f \in DOMAIN flights
  /\ f.pc = "read"
  /\ sbCars' = IF conflict THEN sbCars ELSE Merge(sbCars, [v \in {f.vin} |-> row])
  /\ redis' = IF conflict THEN redis ELSE delStatusAndChangedSince(redis, f.vin)
  /\ flights' = BagAdd(BagDel(flights, f),
                       Landed(f, IF conflict THEN "failed" ELSE "migrated"))
  /\ ev' = [Event("fallback", f.vin, f.pos, 200, "mongodb-fallback")
              EXCEPT !.upserted = ~conflict, !.thrown = conflict,
                     !.queried = TRUE]
  /\ UNCHANGED <<maxmemory, clock, cars, imageDocs, linkReq, preMut, sbStorage,
                 idToPathMap, run, hist>>

\* The VINs asked of the fallback service while its requests are followed
\* step by step.
FlightVins == {"A"}

\* The VINs and Supabase errors the fallback service is asked and meets.
FallbackVins == {"A", "C", BadVin}
Failures == {"none", "query", "upload", "write", "redis"}

\* The sets of positions whose upload Supabase refuses during a migrateCar.
UploadFailures == SUBSET {1}

\* The link requests that reach the server while the migration or the
\* fallback service runs, one at a time.
MigrationLinks ==
  \/ /\ linkReq = BagOf({})
     /\ \E from \in {"A"}, to \in {"C"} : LinkCheck(from, to)
  \/ \E req \in DOMAIN linkReq : LinkSave(req)

\* The batch migration, beside the image server's writes to MongoDB.
NextMigration ==
  \/ Tick
  \/ MigrationLinks
  \/ RunStart
  \/ \E queryError \in BOOLEAN, failing \in UploadFailures :
       \E error \in WriteErrors : migrateCar(queryError, failing, error)
  \/ StartLinked
  \/ \E queryError \in BOOLEAN, error \in WriteErrors :
       migrateLinkedCars(queryError, error)
  \/ RunEnd

\* The fallback service, beside the image server's writes to MongoDB: links
\* from A to C and the deletion of A.
NextFallback ==
  \/ Tick
  \/ MigrationLinks
  \/ \E authenticated \in BOOLEAN : DeleteOriginal("A", authenticated)
  \/ \E vin \in FallbackVins, p \in Positions, fail \in Failures :
       Fallback(vin, p, fail)
  \/ \E key \in DOMAIN redis : Expire(key)

\* The timestamps a record can carry, undefined among them.
Stamps == {Undefined, 0, 1}

\* A legacy store and a canonical store that hold A and the linked C with
\* any timestamps: MongoDB's were written by the uploader, Supabase's by an
\* earlier migration.
InitSkip ==
  \E c, u, sc, su \in Stamps :
    LET images == [p \in {1, 2} |-> IF p = 1 THEN "a" ELSE "b"]
        row(linked) ==
          [images |-> [p \in {1, 2} |->
                         [path |-> ImagePath("A", p), originalId |-> images[p]]],
           linked |-> linked, created_at |-> sc, updated_at |-> su]
    IN /\ clock = MaxClock
       /\ cars = BagOf({[vin |-> "A", images |-> images, linked |-> FALSE,
                          createdAt |-> c, updatedAt |-> u, from |-> ""],
                         [vin |-> "C", images |-> images, linked |-> TRUE,
                          createdAt |-> c, updatedAt |-> u, from |-> "A"]})
       /\ imageDocs = InitialImages
       /\ redis = EmptyMap
       /\ linkReq = BagOf({})
       /\ ev = Event("start", "", 0, 0, "")
       /\ preMut = {}
       /\ sbCars = [v \in {"A", "C"} |-> row(v = "C")]
       /\ sbStorage = [path \in {ImagePath("A", p) : p \in {1, 2}} |->
                         LET p == CHOOSE q \in {1, 2} : ImagePath("A", q) = path
                         IN Jpeg85(RawBytes(images[p]))]
       /\ idToPathMap = EmptyMap
       /\ run = IdleRun
       /\ hist = Disturbed
       /\ flights = BagOf({})
       /\ maxmemory = RedisCapacity
  /\ maxmemory = RedisCapacity

\* A legacy store of three originals, more than one page, written by the
\* uploader at the same time.
InitPages ==
  /\ clock = 0
  /\ cars = BagOf(InitialCars \cup
                    {[vin |-> "C", images |-> [p \in {1} |-> "e"],
                      linked |-> FALSE, createdAt |-> 0, updatedAt |-> 0,
                      from |-> ""]})
  /\ imageDocs = InitialImages \cup {"e"}
  /\ redis = EmptyMap
  /\ linkReq = BagOf({})
  /\ ev = Event("start", "", 0, 0, "")
  /\ preMut = {}
  /\ sbCars = EmptyMap
  /\ sbStorage = EmptyMap
  /\ idToPathMap = EmptyMap
  /\ run = IdleRun
  /\ hist = Disturbed
  /\ flights = BagOf({})
  /\ maxmemory = RedisCapacity

\* runMigration over a legacy store that nothing else writes; of Supabase's
\* errors, that of the first query.
NextPages ==
  \/ RunStart
  \/ FindBatch
  \/ \E queryError \in BOOLEAN : migrateCar(queryError, {}, "none")
  \/ StartLinked
  \/ RunEnd

\* The batch migration alone.
NextSkip ==
  \/ RunStart
  \/ \E queryError \in BOOLEAN, failing \in UploadFailures :
       \E error \in WriteErrors : migrateCar(queryError, failing, error)
  \/ StartLinked
  \/ \E queryError \in BOOLEAN, error \in WriteErrors :
       migrateLinkedCars(queryError, error)
  \/ RunEnd

\* The fallback service with its requests interleaved.
NextFlight ==
  \/ Tick
  \/ \E vin \in FlightVins, p \in Positions : FallbackArrive(vin, p)
  \/ \E f \in DOMAIN flights : FallbackFetch(f)
  \/ \E f \in DOMAIN flights : FallbackWrite(f)
  \/ \E key \in DOMAIN redis : Expire(key)

\* The three writers of the canonical store side by side, Supabase never
\* erring: the batch migration's two loops and the fallback service.
NextWrites ==
  \/ Tick
  \/ MigrationLinks
  \/ RunStart
  \/ migrateCar(FALSE, {}, "none")
  \/ StartLinked
  \/ migrateLinkedCars(FALSE, "none")
  \/ RunEnd
  \/ \E vin \in {"A", "C"}, p \in {1} : Fallback(vin, p, "none")
  \/ \E key \in DOMAIN redis : Expire(key)

\* The batch migration of the originals beside the status requests that
\* fill the cache.
NextInvalidation ==
  \/ RunStart
  \/ \E queryError \in BOOLEAN, failing \in UploadFailures :
       \E error \in WriteErrors : migrateCar(queryError, failing, error)
  \/ StartLinked
  \/ RunEnd
  \/ \E vin \in {"A", "B"} : Status(vin)
  \/ \E key \in DOMAIN redis : Expire(key)

\* The brand routes of the image server beside the expiry of entries.
NextBrand ==
  \/ \E vin \in ReadVins, p \in Positions, readError \in BOOLEAN :
       Brand(vin, p, readError)
  \/ \E brandId \in BrandIds, vin \in Vins, p \in Positions :
       \E readError \in BOOLEAN : BrandV2(brandId, vin, p, readError)
  \/ \E key \in DOMAIN redis : Expire(key)

NextServer == Mutations \/ Reads

NextLinks == Tick \/ Mutations

\* The "changed since" query beside the mutations.
NextChanges ==
  \/ Tick
  \/ Mutations
  \/ \E sec \in Windows : ChangedSince(sec)
  \/ \E key \in DOMAIN redis : Expire(key)

Next == Tick \/ Mutations \/ Reads

\* The image server.
SpecServer == Init /\ [][NextServer]_vars

\* The requests that write MongoDB, as time passes.
SpecLinks == Init /\ [][NextLinks]_vars

\* The batch migration.
SpecMigration == Init /\ [][NextMigration]_vars

\* The fallback service.
SpecFallback == Init /\ [][NextFallback]_vars

SpecChanges == Init /\ [][NextChanges]_vars

SpecFlight == Init /\ [][NextFlight]_vars

SpecWrites == Init /\ [][NextWrites]_vars

SpecInvalidation == Init /\ [][NextInvalidation]_vars

\* runMigration over more than one page; as a process that is scheduled
\* whenever it can take a step.
SpecPages == InitPages /\ [][NextPages]_vars
SpecPagesFair == SpecPages /\ WF_vars(NextPages)

\* The brand routes, with a Redis that has room for two entries.
SpecBrand == InitBrand /\ [][NextBrand]_vars

\* The batch migration over stores with any timestamps.
SpecSkip == InitSkip /\ [][NextSkip]_vars

Spec == Init /\ [][Next \/ NextMigration \/ NextFallback \/ NextChanges]_vars

\* ------------------------------------------------------------ the claims
\* The documents of a VIN, counted with their copies.
Records(vin) == BagSize([d \in {e \in DOMAIN cars : e.vin = vin} |-> cars[d]])

\* The responses an image request for (vin, p) can get in this state.
ImageResponses(vin, p) ==
  {[sent |-> r.sent, image |-> r.image] :
     r \in {handleCarData(carData, vin, p, FALSE) : carData \in findOne(vin)}}

C2_SkipWhenNotNewer ==
  [][(/\ ev'.op \in {"migrateCar", "migrateLinked"}
      /\ run.queue # <<>>
      /\ Head(run.queue).vin \in DOMAIN sbCars
      /\ Head(run.queue).updatedAt <= sbCars[Head(run.queue).vin].updated_at)
     => /\ ev'.uploads = 0
        /\ ~ev'.upserted
        /\ sbCars' = sbCars
        /\ sbStorage' = sbStorage]_vars

C2_Skipped ==
  /\ ev.op \in {"migrateCar", "migrateLinked"}
  /\ ev.out = "skip"
  /\ ev.vin \in DOMAIN sbCars

\* C3: no status or image response comes from a cache entry written before
\* the latest successful link create, link delete or original delete of
\* its VIN.
C3_NoStaleResponse == ev.op \in {"status", "raw"} => ~ev.stale

\* C4: right after a migration step or an on-demand migration wrote the
\* canonical row of a VIN, Redis holds no status, image or fallback entry of
\* that VIN and no "changed since" entry.
C4_CacheInvalidated ==
  (ev.op \in {"migrateCar", "migrateLinked", "fallback"} /\ ev.upserted)
    => DOMAIN redis
         \cap (VinKeys(ev.vin)
                 \cup {getCacheKeyFallback(ev.vin, p) : p \in Positions}
                 \cup {getCacheKeyChanges(w) : w \in Windows}) = {}

\* C5: once the fallback service has migrated (vin, position) on demand, a
\* request for it is answered without reading MongoDB again.
C5_NoLegacyReadAfterMigration ==
  [][(/\ ev'.op = "fallback"
      /\ ev'.vin \in DOMAIN sbCars
      /\ ev'.pos \in DOMAIN sbCars[ev'.vin].images)
     => ev'.out = "fallback-cache"]_vars

\* C6: for every linked record that is the only record of its VIN, and the
\* original record of the VIN it was linked from, an image request for a
\* position they share gets the same response for both VINs.
C6_LinkedImageIdentity ==
  \A l \in DOMAIN cars, o \in DOMAIN cars :
    (l.linked /\ Records(l.vin) = 1 /\ ~o.linked /\ o.vin = l.from)
      => \A p \in DOMAIN l.images \cap DOMAIN o.images :
           ImageResponses(l.vin, p) = ImageResponses(o.vin, p)

\* C7: a link request with well-formed VINs whose target VIN has a record
\* is answered 500 "already exists", and neither saves a record nor changes
\* the records there are.
C7_LinkToExistingRejected ==
  [][(ev'.op = "link" /\ ev'.out # "invalid" /\ Records(ev'.vin) > 0)
     => /\ ev'.code = 500
        /\ ev'.out = "already exists"
        /\ cars' = cars
        /\ linkReq' = linkReq]_vars

C7_Rejected ==
  /\ ev.op = "link"
  /\ ev.out = "already exists"
  /\ \E d \in DOMAIN cars : d.vin = ev.vin /\ d.linked

\* C8: every VIN has at most one record.
C8_OneRecordPerVin == \A vin \in Vins : Records(vin) <= 1

\* C9: every step that removes a record with linked = false is a successful
\* authenticated delete-original of its VIN; a delete-link request that
\* finds such a record is answered 400 and changes no record, and one that
\* succeeds removes one record with linked = true.
C9_OriginalsOnlyByDeleteOriginal ==
  [][/\ \A d \in DOMAIN cars :
          (~d.linked /\ (d \notin DOMAIN cars' \/ cars'[d] < cars[d]))
            => ev'.op = "deleteOriginal" /\ ev'.code = 200 /\ ev'.vin = d.vin
     /\ (ev'.op = "deleteLink" /\ \E d \in DOMAIN cars : d.vin = ev'.vin /\ ~d.linked)
          => ev'.code = 400 /\ cars' = cars
     /\ (ev'.op = "deleteLink" /\ ev'.code = 200)
          => \E d \in DOMAIN cars : d.linked /\ d.vin = ev'.vin
                                     /\ cars' = BagDel(cars, d)]_vars

C9_DeleteLinkRefused ==
  /\ ev.op = "deleteLink"
  /\ ev.code = 400
  /\ \E d \in DOMAIN cars : d.vin = ev.vin /\ ~d.linked

\* C10: a successful delete-original of a record with linked = false leaves
\* no record of the VIN, no Image document of the record's images, and no
\* cache entry of the VIN.
C10_DeleteOriginalRemovesAll ==
  [][(ev'.op = "deleteOriginal" /\ ev'.code = 200)
     => \A d \in DOMAIN cars :
          (d.vin = ev'.vin /\ ~d.linked)
            => /\ Records(d.vin)' = 0
               /\ \A p \in DOMAIN d.images : d.images[p] \notin imageDocs'
               /\ DOMAIN redis' \cap VinKeys(d.vin) = {}]_vars

\* C11: a linked record whose images are those of an original record that
\* is gone gets not-found for every image position.
C11_BrokenLinkNotFound ==
  \A l \in DOMAIN cars, o \in InitialCars :
    (l.linked /\ l.from = o.vin /\ l.images = o.images /\ Records(o.vin) = 0)
      => \A p \in DOMAIN l.images :
           \A r \in ImageResponses(l.vin, p) : r.sent = 404

\* C12: a request with a malformed VIN is answered 400 "not a valid VIN"
\* (or 401 before that), the answers given before any store or cache call.
C12_MalformedVinRejected ==
  ev.vin = BadVin => ev.out \in {"invalid", "unauthorized"}

\* C13: no fallback request ends with 500; in the fallback route the calls
\* that can throw into its outer catch are those to Redis.
C13_CacheErrorsSwallowed == ev.op = "fallback" => ev.code # 500

\* C17: after the fallback service wrote the canonical row of a linked VIN
\* for a position, the row's path for it is the path of that position
\* under the VIN the link was created from, an object is stored at that
\* path, and none is stored under the linked VIN's own path.
C17_LinkedLocatorAtOrigin ==
  (ev.op = "fallback" /\ ev.upserted /\ sbCars[ev.vin].linked)
    => LET path == sbCars[ev.vin].images[ev.pos].path
       IN /\ \E l \in DOMAIN cars :
               l.vin = ev.vin /\ path = ImagePath(l.from, ev.pos)
          /\ path \in DOMAIN sbStorage
          /\ ImagePath(ev.vin, ev.pos) \notin DOMAIN sbStorage

\* C14: a "changed since" answer computed from MongoDB lists exactly the
\* VINs that have a record whose createdAt or updatedAt is at or after the
\* cutoff, each of them once.
C14_ChangedSinceExact ==
  (ev.op = "changedSince" /\ ev.out = "mongodb")
    => /\ DOMAIN ev.body.data =
            {d.vin : d \in {e \in DOMAIN cars :
                \/ InSeconds(e.createdAt) >= ev.body.since
                \/ InSeconds(e.updatedAt) >= ev.body.since}}
       /\ \A v \in DOMAIN ev.body.data : ev.body.data[v] = 1

\* C15: an image request for a position that the VIN's one record does not
\* hold is answered 404 without an exception being raised on the way.
C15_MissingPositionNoError ==
  (/\ ev.op = "raw" /\ ev.out # "invalid" /\ Records(ev.vin) = 1
   /\ \A d \in DOMAIN cars : d.vin = ev.vin => ev.pos \notin DOMAIN d.images)
    => ev.code = 404 /\ ~ev.thrown

\* C16: when a round of migrateLinkedCars wrote the canonical row of a linked
\* record, the lookup table holds every image id the record references, and
\* the row's path for each position is the path the table holds for the
\* position's image id.
C16_LinkedLocatorsFromMap ==
  (ev.op = "migrateLinked" /\ ev.upserted)
    => \A l \in DOMAIN cars : (l.vin = ev.vin /\ l.linked) =>
         \A p \in DOMAIN l.images :
           /\ l.images[p] \in DOMAIN idToPathMap
           /\ p \in DOMAIN sbCars[ev.vin].images
           /\ sbCars[ev.vin].images[p].path = idToPathMap[l.images[p]].path

\* C18: handling one record of a batch, whether it succeeds or fails, leaves
\* exactly the records after it to be handled, in the same phase of the same
\* run; a phase ends only when no record is left; and the run counts as
\* fully successful exactly as long as every record so far was migrated or
\* skipped.
C18_FailureDoesNotAbort ==
  [][/\ ev'.op \in {"migrateCar", "migrateLinked"} =>
          /\ run'.queue = Tail(run.queue)
          /\ run'.pc = run.pc /\ run'.no = run.no
          /\ run'.ok = (run.ok /\ ev'.out \in {"migrated", "skip"})
     /\ run'.pc # run.pc => run.queue = <<>>]_vars

\* A linked record was migrated in a run in which an earlier record failed.
C18_ProcessedAfterFailure ==
  ev.op = "migrateLinked" /\ ev.out = "migrated" /\ ~run.ok

\* C19: a status answer computed for a VIN that has no record but files in
\* the own store reports found, photofairy = false, and createdAt and
\* updatedAt both equal to the time of the request.
C19_OwnStoreOnlyStatus ==
  (ev.op = "status" /\ ev.out = "found" /\ Records(ev.vin) = 0)
    => /\ ev.body.found
       /\ ev.body.photofairy = FALSE
       /\ ev.body.createdAt = clock
       /\ ev.body.updatedAt = clock

\* C20: a status answer for a VIN with one record lists "/<vin>/<position>"
\* once for every position of the record, in ascending order of position,
\* with found = true.
C20_StatusListsPositions ==
  (ev.op = "status" /\ ev.code = 200 /\ Records(ev.vin) = 1)
    => \A d \in DOMAIN cars : d.vin = ev.vin =>
         /\ ev.body.found
         /\ ev.body.images = ImagePaths(ev.vin, DOMAIN d.images)

\* C21: every key in Redis is status:<vin>, img:<vin>:<position>:<shrink or
\* "original">:<brand or "none"> or changes:<windowSeconds>.
C21_CacheKeyLayout ==
  DOMAIN redis \subseteq
    {"status:" \o v : v \in Vins}
      \cup {"img:" \o v \o ":" \o ToString(p) \o ":original:none" :
              v \in Vins, p \in RawPositions}
      \cup {"changes:" \o ToString(w) : w \in Windows}

\* The later of two timestamps; an undefined one counts as absent.
Later(a, b) == IF a >= b THEN a ELSE b

\* A round of either loop found the canonical row of its record, and the
\* record and the row carry a timestamp each.
SkipDecided ==
  /\ ev'.op \in {"migrateCar", "migrateLinked"} /\ ev'.out # "query error"
  /\ existing(Head(run.queue).vin) # Null
  /\ Later(Head(run.queue).createdAt, Head(run.queue).updatedAt) # Undefined
  /\ LET existingCar == existing(Head(run.queue).vin)
     IN Later(existingCar.created_at, existingCar.updated_at) # Undefined

\* The record is skipped exactly when the later of the row's timestamps is
\* not before the later of the record's.
SkipsByMaxima ==
  LET car == Head(run.queue)
      existingCar == existing(car.vin)
  IN (ev'.out = "skip") <=>
       Later(existingCar.created_at, existingCar.updated_at)
         >= Later(car.createdAt, car.updatedAt)

\* Neither the record nor its row has an updatedAt before its createdAt.
StampsOrdered ==
  LET car == Head(run.queue)
      existingCar == existing(car.vin)
  IN /\ car.updatedAt = Undefined \/ car.createdAt <= car.updatedAt
     /\ existingCar.updated_at = Undefined
          \/ existingCar.created_at <= existingCar.updated_at

C23_HitWithoutStoreQuery ==
  (ev.op \in {"raw", "fallback"} /\ ev.out \in {"hit", "fallback-cache"})
    => ~ev.queried

\* C24: when the fallback service answers with the image it read from
\* MongoDB, the request's migration has neither uploaded to Supabase nor
\* written the canonical row yet.
C24_AnswerBeforeMigration ==
  (ev.op = "fallback" /\ ev.out = "mongodb-fallback")
    => ev.uploads = 0 /\ ~ev.upserted

\* The fallback requests that missed the cache and have not answered yet.
InFlight == {f \in DOMAIN flights : f.pc # "done"}

\* C25: of the fallback requests for one VIN and position that missed the
\* cache, at most one is on its way at any time.
C25_SingleFlight ==
  \A f \in InFlight :
    /\ flights[f] = 1
    /\ \A g \in InFlight : (g.vin = f.vin /\ g.pos = f.pos) => g = f

\* C26: once no fallback request is on its way, the canonical row of a VIN
\* holds every position for which a request ran the on-demand migration.
C26_NoLostWrite ==
  InFlight = {}
    => \A f \in DOMAIN flights :
         f.out \in {"migrated", "failed"}
           => f.vin \in DOMAIN sbCars /\ f.pos \in DOMAIN sbCars[f.vin].images

\* C27: when a round of the batch migration writes a canonical row that
\* exists, every position of the row is still in it afterwards, and a
\* position the legacy record does not hold keeps its path.
C27_OtherPositionsPreserved ==
  [][(/\ ev'.op \in {"migrateCar", "migrateLinked"} /\ ev'.upserted
      /\ ev'.vin \in DOMAIN sbCars)
       => \A p \in DOMAIN sbCars[ev'.vin].images :
            /\ p \in DOMAIN sbCars'[ev'.vin].images
            /\ p \notin DOMAIN Head(run.queue).images
                 => sbCars'[ev'.vin].images[p] = sbCars[ev'.vin].images[p]]_vars

\* C28: when the fallback service inserts the canonical row of a VIN, the
\* row's created_at is the createdAt of the VIN's legacy record and its
\* updated_at is the time of the write.
C28_InsertKeepsCreatedAt ==
  [][(/\ ev'.op = "fallback" /\ ev'.upserted
      /\ ev'.vin \notin DOMAIN sbCars /\ Records(ev'.vin) = 1)
       => /\ \A car \in DOMAIN cars :
               car.vin = ev'.vin => sbCars'[ev'.vin].created_at = car.createdAt
          /\ sbCars'[ev'.vin].updated_at = clock]_vars

C32_OwnStoreNotCached ==
  \A k \in DOMAIN redis :
    "b64" \in DOMAIN redis[k] => FromBase64(redis[k]).enc # "own"

\* C31: a migrateCar step that reports success after writing the row has
\* deleted the VIN's status entry and the "changedsince:*" entries, so a
\* step that wrote the row without invalidating reports failure; a step
\* that skips writes neither the canonical store nor the cache and uploads
\* nothing.
C31_SuccessAfterInvalidation ==
  [][ev'.op = "migrateCar" =>
       /\ ev'.out = "migrated" =>
            /\ ev'.upserted
            /\ getCacheKeyStatus(ev'.vin) \notin DOMAIN redis'
            /\ DOMAIN redis' \cap ChangedSinceKeys = {}
       /\ (ev'.upserted /\ getCacheKeyStatus(ev'.vin) \in DOMAIN redis')
            => (ev'.out # "migrated" /\ ~run'.ok)
       /\ ev'.out = "skip" =>
            /\ ~ev'.upserted /\ ev'.uploads = 0
            /\ sbCars' = sbCars /\ sbStorage' = sbStorage /\ redis' = redis]_vars

\* migrateCar wrote a row and reported success.
C31_MigratedAndInvalidated ==
  /\ ev.op = "migrateCar" /\ ev.out = "migrated" /\ ev.upserted
  /\ getCacheKeyStatus(ev.vin) \notin DOMAIN redis

\* The steps of the batch migration and of the fallback service.
MigrationOps ==
  {"runStart", "findBatch", "migrateCar", "startLinked", "migrateLinked",
   "runEnd", "fallback", "fallbackMiss", "fallbackFetch"}

\* C34: no step of the batch migration or of the fallback service, the
\* on-demand migration included, changes MongoDB's cars or images.
C34_LegacyStoreUntouched ==
  [][ev'.op \in MigrationOps => (cars' = cars /\ imageDocs' = imageDocs)]_vars

\* A run ended with rows in the canonical store, and MongoDB holds the
\* documents it held at the start.
C34_MigratedAndKept ==
  /\ ev.op = "runEnd" /\ DOMAIN sbCars # {}
  /\ \A d \in DOMAIN BagOf(InitialCars) : d \in DOMAIN cars

\* C38: when migrateCar has written a record's row and reported success,
\* the row holds a path for every position of the legacy record.
C38_EveryPositionMigrated ==
  (ev.op = "migrateCar" /\ ev.out = "migrated")
    => \A car \in Originals :
         car.vin = ev.vin
           => DOMAIN car.images \subseteq DOMAIN sbCars[ev.vin].images

\* The responses that carry image bytes.
ImageOps == {"raw", "brand", "brandV2", "fallback", "fallbackFetch"}

\* C33: a response is cached with the expiry of its class: image bytes with
\* 30 minutes, a status response with 5 minutes, a changed-since response
\* with 60 seconds.
C33_ClassTtl ==
  ev.ttl # 0 =>
    ev.ttl = (IF ev.op \in ImageOps THEN CACHE_TTL.IMAGE
              ELSE IF ev.op = "status" THEN CACHE_TTL.STATUS
              ELSE CACHE_TTL.CHANGES)

\* C36: no handler calls send or json on its response more than once.
C36_OneResponse == ev.sends <= 1

\* C35: every request for an image (raw, brand v1, brand v2) is answered.
C35_ImageRequestAnswered ==
  ev.op \in {"raw", "brand", "brandV2"} => ev.sends >= 1

\* C37: a brand request that is answered with an image gets the image
\* resolved for its VIN and position, with its brand's footer or, for a
\* position other than 1, without.
C37_BrandedOwnImage ==
  (ev.op \in {"brand", "brandV2"} /\ ev.code = 200)
    => ev.body.sent \in {ev.body.source, Branded(ev.body.source, ev.body.brand)}

\* C39: when the loop over the originals is over, migrateCar has been
\* called exactly once for each original of the legacy store.
C39_EachOriginalOnce ==
  run.pc \in {"linked", "done"}
    => \A car \in Originals :
         car.vin \in DOMAIN run.attempted /\ run.attempted[car.vin] = 1

\* A run that started ends: the connections are closed.
RunTerminates == (run.pc = "originals") ~> (run.pc = "done")
====
